---------------------------- MODULE Spec2Model ----------------------------
(***************************************************************************)
(* A model of WordLadder.py: the wildcard-pattern index built by Graph,    *)
(* the neighbour enumeration of Graph.unvisited, the priority search of    *)
(* Graph.min_path, the function hamming and the prologue of main.          *)
(*                                                                         *)
(* A character is its ASCII code (a = 97, b = 98, ..., A = 65, ? = 63), a  *)
(* word is a sequence of characters, so that the order Python puts on      *)
(* strings is the lexicographic order on these sequences.  Python indexes  *)
(* from 0 and TLA+ from 1: position i of the code is position i + 1 here,  *)
(* and the position stored in a pattern key is the code's.                 *)
(***************************************************************************)
EXTENDS Integers, Sequences, FiniteSets, TLC

\* ------------------------------------------------------------------------
\* Bounds of the model
\* ------------------------------------------------------------------------
\* the words of the exhaustive inputs have MaxLen letters, but for one
\* word that is a letter short
MaxLen == 2
\* and their word collections at most MaxWords words
MaxWords == 1
\* arguments of a direct hamming call: 0 .. HMaxLen letters
HMaxLen == 3
\* min_path calls made on one Graph
MaxCalls == 2

\* the letters of the exhaustive inputs: a and b
Letters == {97, 98}

\* '?'
Wild == 63

Range(s) == {s[i] : i \in 1 .. Len(s)}

Min(a, b) == IF a < b THEN a ELSE b

\* strings over the alphabet with lo .. hi letters
Strings(lo, hi) == UNION {[1 .. n -> Letters] : n \in lo .. hi}

\* a .. a, one letter short
OddWord == [i \in 1 .. (MaxLen - 1) |-> 97]

Universe == Strings(MaxLen, MaxLen) \cup {OddWord}

\* the orders in which a collection of at most n distinct words of U can be
\* iterated
InjSeqs(U, n) ==
    {s \in UNION {[1 .. k -> U] : k \in 0 .. n} :
        \A i, j \in 1 .. Len(s) : i # j => s[i] # s[j]}

\* A fixed word list over a .. d, in the order it is iterated:
\*   ada acb abc adb acc add adc
Pool ==
    << <<97, 100, 97>>, <<97, 99, 98>>, <<97, 98, 99>>, <<97, 100, 98>>,
       <<97, 99, 99>>, <<97, 100, 100>>, <<97, 100, 99>> >>

\* the start words asked for over the pool: cdb, which is not in it, ada,
\* and CDB as typed in capitals
PoolStarts == { <<99, 100, 98>>, <<97, 100, 97>>, <<67, 68, 66>> }

\* the end words: abc, adc and ada
PoolEnds == { <<97, 98, 99>>, <<97, 100, 99>>, <<97, 100, 97>> }

PoolSeqs == {SelectSeq(Pool, LAMBDA w : w \in S) : S \in SUBSET Range(Pool)}

\* ------------------------------------------------------------------------
\* str.lower and the order on strings
\* ------------------------------------------------------------------------
LowerChar(c) == IF c \in 65 .. 90 THEN c + 32 ELSE c

Lower(w) == [i \in 1 .. Len(w) |-> LowerChar(w[i])]

\* a < b for two strings
WordLess(a, b) ==
    \E i \in 1 .. (Min(Len(a), Len(b)) + 1) :
        /\ \A j \in 1 .. (i - 1) : a[j] = b[j]
        /\ \/ i > Len(a) /\ i <= Len(b)
           \/ i <= Len(a) /\ i <= Len(b) /\ a[i] < b[i]

\* p < q for two lists of strings
PathLess(p, q) ==
    \E i \in 1 .. (Min(Len(p), Len(q)) + 1) :
        /\ \A j \in 1 .. (i - 1) : p[j] = q[j]
        /\ \/ i > Len(p) /\ i <= Len(q)
           \/ i <= Len(p) /\ i <= Len(q) /\ WordLess(p[i], q[i])

\* e1 < e2 for two frontier entries (cost, word, path)
EntryLess(e1, e2) ==
    \/ e1[1] < e2[1]
    \/ /\ e1[1] = e2[1]
       /\ \/ WordLess(e1[2], e2[2])
          \/ e1[2] = e2[2] /\ PathLess(e1[3], e2[3])

\* ------------------------------------------------------------------------
\* hamming
\* ------------------------------------------------------------------------
\* the IndexError of end[i] with i >= len(end)
IndexError == 0 - 1

RECURSIVE HammingLoop(_, _, _, _)
HammingLoop(start, end, i, counter) ==
    IF i > Len(start) THEN counter
    ELSE IF i > Len(end) THEN IndexError
    ELSE HammingLoop(start, end, i + 1,
                     IF start[i] # end[i] THEN counter + 1 ELSE counter)

\* hamming looping over the shorter of its two arguments
hammingPrefix(start, end) ==
    HammingLoop(SubSeq(start, 1, Min(Len(start), Len(end))), end, 1, 0)

\* hamming looping from the second letter
hammingFromSecond(start, end) == HammingLoop(start, end, 2, 0)

\* hamming counting the positions where start has the greater letter
RECURSIVE HammingAboveLoop(_, _, _, _)
HammingAboveLoop(start, end, i, counter) ==
    IF i > Len(start) THEN counter
    ELSE IF i > Len(end) THEN IndexError
    ELSE HammingAboveLoop(start, end, i + 1,
                          IF start[i] > end[i] THEN counter + 1 ELSE counter)

hammingAbove(start, end) == HammingAboveLoop(start, end, 1, 0)

hamming(start, end) == HammingLoop(start, end, 1, 0)

\* ------------------------------------------------------------------------
\* Graph
\* ------------------------------------------------------------------------
VARIABLES
    start, end,       \* the two words of the query
    words,            \* the caller's word collection, in iteration order
    pc,               \* where the caller is
    size,             \* Graph.size
    word_patterns,    \* Graph.word_patterns: (position, pattern) -> words
    frontier,         \* min_path's heap, as the sorted sequence of its entries
    visited,          \* min_path's visited: word -> cost
    result,           \* what min_path returned
    calls,            \* min_path calls made so far on this Graph
    first_result,     \* what the first of them returned
    popped,           \* the entry (distance, word, path) popped last
    distance,         \* min_path's distance, as the candidates add to it
    cands,            \* the candidates of the popped word still to push
    pushed,           \* the entries pushed for the popped word, in order
    pushlog,          \* every entry pushed so far in this call, in order
    h_start, h_end,   \* the arguments of a direct hamming call
    h_pc, h_result    \* and its outcome

vars == <<start, end, words, pc, size, word_patterns, frontier, visited,
          result, calls, first_result, popped, distance, cands, pushed,
          pushlog, h_start, h_end, h_pc, h_result>>

graphVars == <<size, word_patterns>>
searchVars == <<frontier, visited, result, calls, first_result,
                popped, distance, cands, pushed, pushlog>>
hVars == <<h_start, h_end, h_pc, h_result>>

EmptyMap == [x \in {} |-> 0]

\* min_path's two kinds of result
None == [none |-> TRUE, path |-> <<>>]
Found(path) == [none |-> FALSE, path |-> path]

NoEntry == <<0, <<>>, <<>>>>

\* patterns with a loop that stops one position early
patternsShort(word) ==
    [i \in 1 .. (Len(word) - 1) |-> <<i - 1, [word EXCEPT ![i] = Wild]>>]

\* Graph.patterns: the (position, pattern) pairs of a word
patterns(word) ==
    [i \in 1 .. Len(word) |-> <<i - 1, [word EXCEPT ![i] = Wild]>>]

\* lines 20-24: one word appended to the bucket of each of its patterns
RECURSIVE AddPatterns(_, _, _, _)
AddPatterns(wp, ps, i, word) ==
    IF i > Len(ps) THEN wp
    ELSE LET p == ps[i]
             wp1 == IF p \notin DOMAIN wp THEN (p :> <<>>) @@ wp ELSE wp
         IN  AddPatterns([wp1 EXCEPT ![p] = Append(wp1[p], word)],
                         ps, i + 1, word)

\* a length test that lets the shorter words in
IndexedUpTo(word, sz) == Len(word) <= sz

\* lines 18-19: only the words of the Graph's size are indexed
Indexed(word, sz) == Len(word) = sz

\* Graph.__init__: the loop over words
RECURSIVE BuildFrom(_, _, _, _)
BuildFrom(wp, ws, i, sz) ==
    IF i > Len(ws) THEN wp
    ELSE IF ~Indexed(ws[i], sz) THEN BuildFrom(wp, ws, i + 1, sz)
    ELSE BuildFrom(AddPatterns(wp, patterns(ws[i]), 1, ws[i]), ws, i + 1, sz)

BuildIndex(ws, sz) == BuildFrom(EmptyMap, ws, 1, sz)

\* Graph.unvisited: for each pattern of word in turn, the words of its
\* bucket that are not keys of visited
RECURSIVE UnvisitedFrom(_, _, _, _)
UnvisitedFrom(wp, ps, i, vis) ==
    IF i > Len(ps) THEN <<>>
    ELSE IF ps[i] \notin DOMAIN wp THEN UnvisitedFrom(wp, ps, i + 1, vis)
    ELSE SelectSeq(wp[ps[i]], LAMBDA cand : cand \notin DOMAIN vis)
            \o UnvisitedFrom(wp, ps, i + 1, vis)

unvisited(wp, word, vis) == UnvisitedFrom(wp, patterns(word), 1, vis)


\* ------------------------------------------------------------------------
\* Graph.min_path
\* ------------------------------------------------------------------------
\* heapq.heappush: the entry takes its place in the order of the entries
heappush(fr, entry) ==
    LET k == Cardinality({i \in 1 .. Len(fr) : ~EntryLess(entry, fr[i])})
    IN  SubSeq(fr, 1, k) \o <<entry>> \o SubSeq(fr, k + 1, Len(fr))

\* a pop that leaves the smallest entry in the heap
HeapRestPeek(fr) == fr

\* heapq.heappop: the smallest entry, and the heap without it
HeapTop(fr) == fr[1]

HeapRest(fr) == Tail(fr)

\* a first entry whose path holds the start word twice
InitialEntryTwice(s) == <<0, s, <<s, s>>>>

\* line 83: the entry the search starts from
InitialEntry(s) == <<0, s, <<s>>>>

\* a non-empty string literal is true
Truthy(literal) == Len(literal) > 0

\* line 97: i == 'a' or 'e' or 'i' or 'o' or 'u' or 'y'
VowelCondition(i) ==
    \/ i = 97
    \/ Truthy(<<101>>)
    \/ Truthy(<<105>>)
    \/ Truthy(<<111>>)
    \/ Truthy(<<117>>)
    \/ Truthy(<<121>>)

\* an increment counted between the first and the last word of path
PathIncrementFromStart(path) ==
    LET last == path[Len(path)]
        first == path[1]
    IN  Cardinality({n \in 1 .. Min(Len(last), Len(first)) :
                        last[n] # first[n] /\ VowelCondition(last[n])})

\* lines 94-98: what one candidate adds to distance, counted over the
\* last two words of path (path[-1] twice when path has one word)
PathIncrement(path) ==
    LET last == path[Len(path)]
        prev == IF Len(path) >= 2 THEN path[Len(path) - 1] ELSE path[Len(path)]
    IN  Cardinality({n \in 1 .. Min(Len(last), Len(prev)) :
                        last[n] # prev[n] /\ VowelCondition(last[n])})

\* a pushed path that repeats the popped word in place of the candidate
PushedPathStale(path, adjacent) == Append(path, path[Len(path)])

\* a pushed path that puts the candidate in front of the popped path
PushedPathPrepend(path, adjacent) == <<adjacent>> \o path

\* line 103: the path pushed with a candidate
PushedPath(path, adjacent) == Append(path, adjacent)

\* a call of min_path that keeps the visited words of the call before it
MinPathCallStale ==
    /\ pc \in {"built", "returned"}
    /\ calls < MaxCalls
    /\ frontier' = heappush(<<>>, InitialEntry(start))
    /\ calls' = calls + 1
    /\ first_result' = IF calls = 1 THEN result ELSE first_result
    /\ result' = None
    /\ popped' = NoEntry
    /\ distance' = 0
    /\ cands' = <<>>
    /\ pushed' = <<>>
    /\ pushlog' = <<InitialEntry(start)>>
    /\ pc' = "search"
    /\ UNCHANGED <<start, end, words, graphVars, visited, hVars>>

\* lines 79-83: a call of min_path(start, end) on the Graph
MinPathCall ==
    /\ pc \in {"built", "returned"}
    /\ calls < MaxCalls
    /\ visited' = EmptyMap
    /\ frontier' = heappush(<<>>, InitialEntry(start))
    /\ calls' = calls + 1
    /\ first_result' = IF calls = 1 THEN result ELSE first_result
    /\ result' = None
    /\ popped' = NoEntry
    /\ distance' = 0
    /\ cands' = <<>>
    /\ pushed' = <<>>
    /\ pushlog' = <<InitialEntry(start)>>
    /\ pc' = "search"
    /\ UNCHANGED <<start, end, words, graphVars, hVars>>

\* lines 85, 104: the frontier is empty
ReturnNone ==
    /\ pc = "search"
    /\ Len(frontier) = 0
    /\ result' = None
    /\ pc' = "returned"
    /\ UNCHANGED <<start, end, words, graphVars, frontier, visited, calls,
                   first_result, popped, distance, cands, pushed, pushlog,
                   hVars>>

\* lines 85-91: the popped word is end
PopGoal ==
    /\ pc = "search"
    /\ Len(frontier) > 0
    /\ HeapTop(frontier)[2] = end
    /\ popped' = HeapTop(frontier)
    /\ distance' = HeapTop(frontier)[1]
    /\ frontier' = HeapRest(frontier)
    /\ cands' = <<>>
    /\ pushed' = <<>>
    /\ result' = Found(HeapTop(frontier)[3])
    /\ pc' = "returned"
    /\ UNCHANGED <<start, end, words, graphVars, visited, calls,
                   first_result, pushlog, hVars>>

\* lines 85-93: the popped word is not end; unvisited lists its candidates
PopWord ==
    /\ pc = "search"
    /\ Len(frontier) > 0
    /\ HeapTop(frontier)[2] # end
    /\ popped' = HeapTop(frontier)
    /\ distance' = HeapTop(frontier)[1]
    /\ frontier' = HeapRest(frontier)
    /\ cands' = unvisited(word_patterns, HeapTop(frontier)[2], visited)
    /\ pushed' = <<>>
    /\ pc' = IF cands' = <<>> THEN "search" ELSE "expand"
    /\ UNCHANGED <<start, end, words, graphVars, visited, result, calls,
                   first_result, pushlog, hVars>>

\* a push that gives every candidate the popped distance to start from
PushCandidateReset ==
    /\ pc = "expand"
    /\ LET adjacent == Head(cands)
           path == popped[3]
           cost == popped[1] + PathIncrement(path) + hamming(adjacent, end)
           entry == <<cost, adjacent, PushedPath(path, adjacent)>>
       IN  /\ distance' = popped[1] + PathIncrement(path)
           /\ visited' = (adjacent :> cost) @@ visited
           /\ frontier' = heappush(frontier, entry)
           /\ pushed' = Append(pushed, entry)
           /\ pushlog' = Append(pushlog, entry)
    /\ cands' = Tail(cands)
    /\ pc' = IF Tail(cands) = <<>> THEN "search" ELSE "expand"
    /\ UNCHANGED <<start, end, words, graphVars, result, calls,
                   first_result, popped, hVars>>

\* a push that records the candidate in a visited emptied of its other keys
PushCandidateForgets ==
    /\ pc = "expand"
    /\ LET adjacent == Head(cands)
           path == popped[3]
           cost == distance + PathIncrement(path) + hamming(adjacent, end)
           entry == <<cost, adjacent, PushedPath(path, adjacent)>>
       IN  /\ distance' = distance + PathIncrement(path)
           /\ visited' = (adjacent :> cost) @@ EmptyMap
           /\ frontier' = heappush(frontier, entry)
           /\ pushed' = Append(pushed, entry)
           /\ pushlog' = Append(pushlog, entry)
    /\ cands' = Tail(cands)
    /\ pc' = IF Tail(cands) = <<>> THEN "search" ELSE "expand"
    /\ UNCHANGED <<start, end, words, graphVars, result, calls,
                   first_result, popped, hVars>>

\* lines 93-103: one candidate is given its cost, recorded in visited and
\* pushed; distance keeps what the candidate added to it
PushCandidate ==
    /\ pc = "expand"
    /\ LET adjacent == Head(cands)
           path == popped[3]
           cost == distance + PathIncrement(path) + hamming(adjacent, end)
           entry == <<cost, adjacent, PushedPath(path, adjacent)>>
       IN  /\ distance' = distance + PathIncrement(path)
           /\ visited' = (adjacent :> cost) @@ visited
           /\ frontier' = heappush(frontier, entry)
           /\ pushed' = Append(pushed, entry)
           /\ pushlog' = Append(pushlog, entry)
    /\ cands' = Tail(cands)
    /\ pc' = IF Tail(cands) = <<>> THEN "search" ELSE "expand"
    /\ UNCHANGED <<start, end, words, graphVars, result, calls,
                   first_result, popped, hVars>>

Loop == ReturnNone \/ PopGoal \/ PopWord \/ PushCandidate

\* ------------------------------------------------------------------------
\* main, and a caller that builds the Graph itself
\* ------------------------------------------------------------------------
InsertAt(ws, k, w) == SubSeq(ws, 1, k) \o <<w>> \o SubSeq(ws, k + 1, Len(ws))

\* lines 162-163: words.add(end); a new word may come anywhere in the
\* iteration order of the set
AddWord(ws, w) ==
    IF w \in Range(ws) THEN {ws}
    ELSE {InsertAt(ws, k, w) : k \in 0 .. Len(ws)}

\* a main that adds end to the words before it compares the lengths
MainRaiseLate ==
    /\ pc = "entry"
    /\ Len(Lower(start)) # Len(Lower(end))
    /\ start' = Lower(start)
    /\ end' = Lower(end)
    /\ words' \in AddWord(words, Lower(end))
    /\ pc' = "raised"
    /\ UNCHANGED <<graphVars, searchVars, hVars>>

\* lines 155-159: the two words differ in length
MainRaise ==
    /\ pc = "entry"
    /\ Len(Lower(start)) # Len(Lower(end))
    /\ start' = Lower(start)
    /\ end' = Lower(end)
    /\ pc' = "raised"
    /\ UNCHANGED <<words, graphVars, searchVars, hVars>>

\* lines 155-166: end joins the words and the Graph is built
MainBuild ==
    /\ pc = "entry"
    /\ Len(Lower(start)) = Len(Lower(end))
    /\ start' = Lower(start)
    /\ end' = Lower(end)
    /\ words' \in AddWord(words, Lower(end))
    /\ size' = Len(Lower(start))
    /\ word_patterns' = BuildIndex(words', Len(Lower(start)))
    /\ pc' = "built"
    /\ UNCHANGED <<searchVars, hVars>>

\* Graph(words, len(start)) built by a caller other than main
DirectBuild ==
    /\ pc = "entry"
    /\ Len(start) = Len(end)
    /\ size' = Len(start)
    /\ word_patterns' = BuildIndex(words, Len(start))
    /\ pc' = "built"
    /\ UNCHANGED <<start, end, words, searchVars, hVars>>

InitIdle ==
    /\ size = 0
    /\ word_patterns = EmptyMap
    /\ frontier = <<>>
    /\ visited = EmptyMap
    /\ result = None
    /\ calls = 0
    /\ first_result = None
    /\ popped = NoEntry
    /\ distance = 0
    /\ cands = <<>>
    /\ pushed = <<>>
    /\ pushlog = <<>>

Init ==
    /\ pc = "entry"
    /\ \/ /\ words \in InjSeqs(Universe, MaxWords)
          /\ start \in Strings(MaxLen, MaxLen)
          /\ end \in Universe
       \/ /\ words \in PoolSeqs
          /\ start \in PoolStarts
          /\ end \in PoolEnds
    /\ InitIdle
    /\ h_start = <<>>
    /\ h_end = <<>>
    /\ h_pc = "idle"
    /\ h_result = 0

Next == MainRaise \/ MainBuild \/ DirectBuild \/ MinPathCall
            \/ ReturnNone \/ PopGoal \/ PopWord \/ PushCandidate

Spec == Init /\ [][Next]_vars

\* the program runs its loop: an iteration that can be taken is taken
FairSpec == Spec /\ WF_vars(Loop)

\* ------------------------------------------------------------------------
\* hamming called directly
\* ------------------------------------------------------------------------
HStrings == Strings(0, HMaxLen)

HInit ==
    /\ h_start \in HStrings
    /\ h_end \in HStrings
    /\ h_pc = "call"
    /\ h_result = 0
    /\ pc = "idle"
    /\ start = <<>>
    /\ end = <<>>
    /\ words = <<>>
    /\ InitIdle

\* lines 131-135 run to the return
HammingReturn ==
    /\ h_pc = "call"
    /\ hamming(h_start, h_end) # IndexError
    /\ h_result' = hamming(h_start, h_end)
    /\ h_pc' = "returned"
    /\ UNCHANGED <<h_start, h_end, start, end, words, pc, graphVars,
                   searchVars>>

\* line 133 raises
HammingRaise ==
    /\ h_pc = "call"
    /\ hamming(h_start, h_end) = IndexError
    /\ h_pc' = "raised"
    /\ UNCHANGED <<h_start, h_end, h_result, start, end, words, pc,
                   graphVars, searchVars>>

HNext == HammingReturn \/ HammingRaise

HSpec == HInit /\ [][HNext]_vars


\* ------------------------------------------------------------------------
\* The word graph, stated without the index
\* ------------------------------------------------------------------------
\* the words of the index
IndexWords == UNION {Range(word_patterns[k]) : k \in DOMAIN word_patterns}

\* a and b have equal length and differ in exactly one letter position
OneLetterApart(a, b) ==
    /\ Len(a) = Len(b)
    /\ Cardinality({i \in 1 .. Len(a) : a[i] # b[i]}) = 1

\* the nodes of the word graph of a search
Nodes == {start} \cup IndexWords

RECURSIVE ReachFrom(_)
ReachFrom(S) ==
    LET S1 == S \cup {n \in Nodes : \E m \in S : OneLetterApart(m, n)}
    IN  IF S1 = S THEN S ELSE ReachFrom(S1)

\* the words a ladder from start leads to
Reachable == ReachFrom({start})

\* the number of words of a shortest ladder from the words of S to w,
\* when S holds the words that ladders of n words lead to; 0 when none
RECURSIVE LadderWords(_, _, _)
LadderWords(S, n, w) ==
    IF w \in S THEN n
    ELSE LET S1 == S \cup {x \in Nodes : \E m \in S : OneLetterApart(m, x)}
         IN  IF S1 = S THEN 0 ELSE LadderWords(S1, n + 1, w)

ShortestLadderWords == LadderWords({start}, 1, end)

Returned == pc = "returned"

ReturnedPath == Returned /\ ~result.none

\* C1: a path returned by min_path begins with start, ends with end, every
\* word after the first is a word of the index, and every two consecutive
\* words have equal length and differ in exactly one letter position.
PathIsLadder ==
    ReturnedPath =>
        LET p == result.path
        IN  /\ Len(p) >= 1
            /\ p[1] = start
            /\ p[Len(p)] = end
            /\ \A i \in 2 .. Len(p) : p[i] \in IndexWords
            /\ \A i \in 1 .. (Len(p) - 1) : OneLetterApart(p[i], p[i + 1])

\* a ladder of four words or more was returned
LadderReturned == ReturnedPath /\ Len(result.path) >= 4

\* C2: a path returned by min_path is a shortest word ladder: no ladder
\* from start to end over the index words has fewer words.
ReturnedIsShortest ==
    ReturnedPath => Len(result.path) = ShortestLadderWords

\* C3: min_path returns None exactly when end cannot be reached from start
\* in the word graph.
NoneIffUnreachable ==
    Returned => (result.none <=> end \notin Reachable)

\* None was returned although start has a neighbour in the index and end
\* is an index word
NoneReturned ==
    /\ Returned
    /\ result.none
    /\ end \in IndexWords
    /\ \E w \in IndexWords : OneLetterApart(start, w)

\* C4: the loop of min_path terminates: a search that has begun returns.
SearchTerminates == (pc \in {"search", "expand"}) ~> (pc = "returned")

\* a search that pushed three candidates or more has returned
LongSearchReturned == Returned /\ Len(pushlog) >= 4

\* C5: min_path(w, w) returns the one-word path [w], whether or not w is in
\* the index.
SelfPath ==
    (Returned /\ start = end) => result = Found(<<start>>)

\* min_path(w, w) has returned for a word w that is not in the index
SelfReturned ==
    /\ Returned
    /\ start = end
    /\ start \notin IndexWords
    /\ IndexWords # {}

\* and for one that is
SelfReturnedIndexed == Returned /\ start = end /\ start \in IndexWords


\* the number of positions up to n where a and b differ
Differing(a, b, n) == Cardinality({i \in 1 .. n : a[i] # b[i]})

HammingDone == h_pc \in {"returned", "raised"}

\* C6: hamming called with strings of unequal length always fails with an
\* error, whichever of the two is the longer, and never returns an integer.
HammingUnequalFails ==
    (HammingDone /\ Len(h_start) # Len(h_end)) => h_pc = "raised"

\* C6, as the code has it: hamming(a, b) fails with an error when a is
\* longer than b; when a is shorter than b it returns the number of
\* positions of a where a and b differ.
HammingUnequal ==
    (HammingDone /\ Len(h_start) # Len(h_end)) =>
        IF Len(h_start) > Len(h_end) THEN h_pc = "raised"
        ELSE /\ h_pc = "returned"
             /\ h_result = Differing(h_start, h_end, Len(h_start))

\* hamming has failed on a longer first argument
HammingRaised ==
    h_pc = "raised" /\ Len(h_start) > Len(h_end) /\ Len(h_end) >= 1

\* C7: main called with words of different lengths fails before any graph
\* work: no Graph is built, no search step runs, the words are unchanged.
MainFailsFast ==
    [][(pc = "entry" /\ Len(start) # Len(end)) =>
            /\ pc' = "raised"
            /\ words' = words
            /\ graphVars' = graphVars
            /\ searchVars' = searchVars]_vars

\* main has failed on a non-empty collection that does not hold end
MainRaised ==
    /\ pc = "raised"
    /\ Len(start) # Len(end)
    /\ words # <<>>
    /\ end \notin Range(words)
    /\ word_patterns = EmptyMap

GraphBuilt == pc \in {"built", "search", "expand", "returned"}

\* C8: in a built Graph every input word of length L is in exactly L
\* buckets, those of its own (position, pattern) pairs; every word of a
\* bucket matches the bucket's pattern at every unmasked position; and no
\* word of another length is in any bucket.
IndexSound ==
    GraphBuilt =>
        /\ \A w \in Range(words) :
              Len(w) = size =>
                LET keys == {k \in DOMAIN word_patterns :
                                w \in Range(word_patterns[k])}
                IN  /\ Cardinality(keys) = size
                    /\ \A i \in 1 .. size :
                          \E k \in keys : k[1] = i - 1 /\ k[2][i] = Wild
        /\ \A k \in DOMAIN word_patterns :
              /\ Len(k[2]) = size
              /\ \A w \in Range(word_patterns[k]) :
                    /\ Len(w) = size
                    /\ w \in Range(words)
                    /\ \A j \in 1 .. size :
                          j # k[1] + 1 => w[j] = k[2][j]

\* a Graph was built from a word of its size and a shorter word
IndexBuilt ==
    /\ pc = "built"
    /\ \E w \in Range(words) : Len(w) < size
    /\ \E w \in Range(words) : Len(w) = size
    /\ DOMAIN word_patterns # {}

\* C9: a second min_path call with the same start and end on the same
\* index returns what the first returned; min_path leaves word_patterns
\* as Graph built it.
SecondCallSame ==
    /\ pc \in {"search", "expand", "returned"} =>
          word_patterns = BuildIndex(words, size)
    /\ (Returned /\ calls >= 2) => result = first_result

\* a second call has returned a ladder of three words or more
SecondCallReturned ==
    /\ Returned
    /\ calls = 2
    /\ ~result.none
    /\ Len(result.path) >= 3

\* C10: for strings a and b of equal length, hamming(a, b) is the number of
\* positions where a and b differ, and hamming(w, w) is 0.
HammingCounts ==
    (HammingDone /\ Len(h_start) = Len(h_end)) =>
        /\ h_pc = "returned"
        /\ h_result = Differing(h_start, h_end, Len(h_start))
        /\ h_start = h_end => h_result = 0

\* hamming has returned for two strings that differ in their first letter
\* and in another
HammingReturned ==
    /\ h_pc = "returned"
    /\ Len(h_start) = Len(h_end)
    /\ Len(h_start) >= 2
    /\ h_start[1] # h_end[1]
    /\ h_result >= 2


\* C11: for strings a and b of equal length, hamming(a, b) = hamming(b, a).
HammingSymmetric ==
    (h_pc = "returned" /\ Len(h_start) = Len(h_end)) =>
        h_result = hamming(h_end, h_start)

\* hamming has returned for two different strings of equal length
HammingOfTwo ==
    /\ h_pc = "returned"
    /\ Len(h_start) = Len(h_end)
    /\ WordLess(h_start, h_end)
    /\ h_result >= 1


\* the number of positions where the last two words of the popped path
\* differ; 0 when the path has one word or none
RoundIncrement ==
    LET path == popped[3]
    IN  IF Len(path) < 2 THEN 0
        ELSE Differing(path[Len(path)], path[Len(path) - 1],
                       Len(path[Len(path)]))

\* what is left of the cost of the k-th entry pushed for the popped word
\* when the hamming distance of its word to end is taken off
Incremental(k) ==
    pushed[k][1] - Differing(pushed[k][2], end, Len(pushed[k][2]))

\* C12: the k-th candidate of a popped entry (distance, word, path) is
\* recorded in visited and pushed with cost distance + k * d +
\* hamming(candidate, end), d being the number of positions where the last
\* two words of path differ: distance is not reset between the candidates.
CandidateCosts ==
    \A k \in 1 .. Len(pushed) :
        /\ pushed[k][1] = popped[1] + k * RoundIncrement
                            + Differing(pushed[k][2], end, Len(pushed[k][2]))
        /\ pushed[k][2] \in DOMAIN visited
        /\ visited[pushed[k][2]] = pushed[k][1]

\* three candidates were pushed for a word popped with a path of two
\* words or more
ThreeCandidatesPushed == Len(pushed) >= 3 /\ RoundIncrement = 1

\* C13: the incremental cost is the same for every candidate of one pop:
\* cost(c1) - hamming(c1, end) = cost(c2) - hamming(c2, end).
SameIncrement ==
    \A j, k \in 1 .. Len(pushed) : Incremental(j) = Incremental(k)

\* C13, as the code has it: every candidate of one pop adds the same d to
\* distance, so the incremental costs of the j-th and the k-th candidate
\* differ by (k - j) * d, and are the same only when d = 0.
IncrementSteps ==
    \A j, k \in 1 .. Len(pushed) :
        Incremental(k) - Incremental(j) = (k - j) * RoundIncrement

\* two candidates were pushed with different incremental costs
TwoIncrements ==
    /\ Len(pushed) = 2
    /\ pc = "search"
    /\ Incremental(2) = Incremental(1) + 1


\* the words unvisited has just returned for the popped word: no candidate
\* of the pop is pushed yet, so visited is the one unvisited was given
JustPopped ==
    /\ pc \in {"search", "expand"}
    /\ popped # NoEntry
    /\ pushed = <<>>

\* C14: unvisited(word, visited) returns exactly the index words that
\* differ from word in exactly one letter position and are not keys of
\* visited.
UnvisitedAreNeighbours ==
    JustPopped =>
        Range(cands) = {w \in IndexWords :
                            /\ OneLetterApart(popped[2], w)
                            /\ w \notin DOMAIN visited}

\* the costs of the entries pushed so far for word w
PushedCosts(w) ==
    {pushlog[i][1] : i \in {j \in 1 .. Len(pushlog) : pushlog[j][2] = w}}

\* C15: for every key w of visited, visited[w] is the lowest cost of the
\* entries pushed so far for w, the first push of start at cost 0 included.
VisitedIsLowest ==
    \A w \in DOMAIN visited :
        /\ PushedCosts(w) # {}
        /\ visited[w] \in PushedCosts(w)
        /\ \A c \in PushedCosts(w) : visited[w] <= c

\* the codes of the letters a, e, i, o, u, y
Vowels == {97, 101, 105, 111, 117, 121}

\* the positions where the last two words of path differ and the letter of
\* the last word is a vowel
VowelChanges(path) ==
    IF Len(path) < 2 THEN 0
    ELSE LET last == path[Len(path)]
             prev == path[Len(path) - 1]
         IN  Cardinality({n \in 1 .. Min(Len(last), Len(prev)) :
                             last[n] # prev[n] /\ last[n] \in Vowels})

\* C16: distance is increased by 1 only for a differing position of the
\* last two words of the path whose letter is one of a, e, i, o, u, y; a
\* differing position whose letter is a consonant adds nothing.
VowelsOnlyCounted ==
    popped # NoEntry =>
        distance = popped[1] + Len(pushed) * VowelChanges(popped[3])

\* every word other than start is pushed at most once, and the pushes of
\* a call are at most the index words and L + 1 more
PushesBounded ==
    /\ \A i, j \in 1 .. Len(pushlog) :
            (pushlog[i][2] = pushlog[j][2] /\ pushlog[i][2] # start) => i = j
    /\ Len(pushlog) <= Cardinality(IndexWords) + size + 1

\* C17: during one call of min_path the key set of visited never loses a
\* key, every word other than start is pushed at most once, and the number
\* of pushes is at most (number of index words) + L + 1.
VisitedGrows ==
    [][/\ calls' = calls => DOMAIN visited \subseteq DOMAIN visited'
       /\ PushesBounded']_vars

\* a call has returned after pushing start L + 1 times and every other
\* index word once
AllWordsPushed ==
    /\ Returned
    /\ start \in IndexWords
    /\ Cardinality(IndexWords) >= 2
    /\ Len(pushlog) = Cardinality(IndexWords) + size

\* C18: every entry (cost, word, path) of the frontier has a non-empty
\* path whose first element is start and whose last element is the
\* entry's word.
FrontierPaths ==
    \A k \in 1 .. Len(frontier) :
        LET path == frontier[k][3]
        IN  /\ Len(path) >= 1
            /\ path[1] = start
            /\ path[Len(path)] = frontier[k][2]

\* the frontier holds two entries or more, one of them with a path of
\* three words or more
LongPathWaiting ==
    /\ Len(frontier) >= 2
    /\ \E k \in 1 .. Len(frontier) : Len(frontier[k][3]) >= 3

=============================================================================
